---- MODULE Spec2Model ----
(***************************************************************************)
(* A model of app.py (DeepSeek Life OS): the DataManager record store      *)
(* (load / save of a JSON array file guarded by the file's sha), the       *)
(* language-model extraction functions (clean_json_str, ai_parse_calendar, *)
(* ai_parse_finance) and the Streamlit handlers that combine them.         *)
(*                                                                         *)
(* Text is a sequence of symbols.  A symbol stands for one character       *)
(* (a backtick, a quote, a bracket, a newline) or for an unbroken run of   *)
(* characters that no operation of the program looks into ("json",         *)
(* "null", a number literal, a word).  Python values are tagged records.   *)
(***************************************************************************)
EXTENDS Integers, Sequences, FiniteSets, TLC

----------------------------------------------------------------------------
(* Symbols of text *)

QUOTE == "dquote"
BSLASH == "bslash"
BT == "backtick"
NL == "newline"
SP == "space"
LBRACK == "["
RBRACK == "]"
LBRACE == "{"
RBRACE == "}"
COLON == ":"
COMMA == ","
JSONWORD == "json"
NULLWORD == "null"

\* the whitespace symbols: what the regex class for whitespace and str.strip() match
IsSpace(c) == c \in {NL, SP}

\* the number literals that occur in the model's texts
NumLits == {"0", "5", "-20"}

----------------------------------------------------------------------------
(* Python values *)

PyNone == [k |-> "none"]
PyStr(s) == [k |-> "str", s |-> s]
PyNum(lit) == [k |-> "num", lit |-> lit]
PyList(items) == [k |-> "list", items |-> items]
PyDict(f) == [k |-> "dict", f |-> f]

IsList(v) == v.k = "list"
IsDict(v) == v.k = "dict"

\* bool(v), as `if v:` evaluates it
Truthy(v) ==
    CASE v.k = "none" -> FALSE
      [] v.k = "str" -> v.s # <<>>
      [] v.k = "num" -> v.lit # "0"
      [] v.k = "list" -> v.items # <<>>
      [] v.k = "dict" -> DOMAIN v.f # {}

\* a dict literal with the given keys (each key a text)
EmptyMap == [x \in {} |-> PyNone]
MapPut(f, key, v) == [x \in DOMAIN f \cup {key} |-> IF x = key THEN v ELSE f[x]]

\* the keys of a dict in the order they are written out (the model's dicts
\* are unordered; the order chosen is fixed per key set)
RECURSIVE KeySeq(_)
KeySeq(S) ==
    IF S = {} THEN <<>>
    ELSE LET x == CHOOSE y \in S : TRUE IN <<x>> \o KeySeq(S \ {x})

----------------------------------------------------------------------------
(* json.dumps(data, indent=4, ensure_ascii=False) *)

\* a json.dumps that escapes nothing
EscapeChar_none(c) == <<c>>

\* the characters json.dumps escapes inside a string; every other symbol,
\* non-ASCII ones included (ensure_ascii=False), is written literally
EscapeChar(c) ==
    CASE c = QUOTE -> <<BSLASH, QUOTE>>
      [] c = BSLASH -> <<BSLASH, BSLASH>>
      [] c = NL -> <<BSLASH, "n">>
      [] OTHER -> <<c>>

RECURSIVE EscapeStr(_)
EscapeStr(s) == IF s = <<>> THEN <<>> ELSE EscapeChar(Head(s)) \o EscapeStr(Tail(s))

DumpStr(s) == <<QUOTE>> \o EscapeStr(s) \o <<QUOTE>>

RECURSIVE Dumps(_), DumpItems(_), DumpMembers(_, _)
\* the items of a non-empty list, one per line, separated by commas
DumpItems(items) ==
    IF Len(items) = 1 THEN <<NL>> \o Dumps(items[1])
    ELSE <<NL>> \o Dumps(Head(items)) \o <<COMMA>> \o DumpItems(Tail(items))

\* the members of a non-empty dict, one per line, "key": value
DumpMembers(f, keys) ==
    LET one == <<NL>> \o DumpStr(Head(keys)) \o <<COLON, SP>> \o Dumps(f[Head(keys)])
    IN IF Len(keys) = 1 THEN one
       ELSE one \o <<COMMA>> \o DumpMembers(f, Tail(keys))

Dumps(v) ==
    CASE v.k = "none" -> <<NULLWORD>>
      [] v.k = "str" -> DumpStr(v.s)
      [] v.k = "num" -> <<v.lit>>
      [] v.k = "list" ->
            IF v.items = <<>> THEN <<LBRACK, RBRACK>>
            ELSE <<LBRACK>> \o DumpItems(v.items) \o <<NL, RBRACK>>
      [] v.k = "dict" ->
            IF DOMAIN v.f = {} THEN <<LBRACE, RBRACE>>
            ELSE <<LBRACE>> \o DumpMembers(v.f, KeySeq(DOMAIN v.f)) \o <<NL, RBRACE>>

----------------------------------------------------------------------------
(* json.loads(text): a parse result is [ok, v, i], i the index after the   *)
(* value; ok = FALSE stands for the JSONDecodeError json.loads raises      *)

ParseFail == [ok |-> FALSE, v |-> PyNone, i |-> 0]
ParseOk(v, i) == [ok |-> TRUE, v |-> v, i |-> i]

RECURSIVE SkipWs(_, _)
SkipWs(t, i) == IF 1 <= i /\ i <= Len(t) /\ IsSpace(t[i]) THEN SkipWs(t, i + 1) ELSE i

\* the body of a string literal from index i on, acc the characters so far
RECURSIVE ParseStrBody(_, _, _)
ParseStrBody(t, i, acc) ==
    IF i > Len(t) THEN ParseFail
    ELSE IF t[i] = QUOTE THEN ParseOk(PyStr(acc), i + 1)
    ELSE IF t[i] = NL THEN ParseFail
    ELSE IF t[i] = BSLASH THEN
        IF i + 1 > Len(t) THEN ParseFail
        ELSE IF t[i + 1] \in {QUOTE, BSLASH} THEN ParseStrBody(t, i + 2, Append(acc, t[i + 1]))
        ELSE IF t[i + 1] = "n" THEN ParseStrBody(t, i + 2, Append(acc, NL))
        ELSE ParseFail
    ELSE ParseStrBody(t, i + 1, Append(acc, t[i]))

\* the one element of a singleton set: {F(x) : x \in {e}} evaluates e once,
\* however often F uses x
Only(S) == CHOOSE x \in S : TRUE

RECURSIVE ParseValue(_, _), ParseElems(_, _, _), ParseMembers(_, _, _)
\* after the element r of an array: "," and more elements, or "]"
AfterElem(t, r, j, acc) ==
    IF ~r.ok \/ j > Len(t) THEN ParseFail
    ELSE IF t[j] = COMMA THEN ParseElems(t, j + 1, Append(acc, r.v))
    ELSE IF t[j] = RBRACK THEN ParseOk(PyList(Append(acc, r.v)), j + 1)
    ELSE ParseFail

\* the elements of an array after "[" or ",": value, then "," or "]"
ParseElems(t, i, acc) ==
    Only({ Only({ AfterElem(t, r, j, acc) : j \in {SkipWs(t, r.i)} }) :
           r \in {ParseValue(t, i)} })

\* after the member key : r of an object: "," and more members, or "}"
AfterMember(t, key, r, j, acc) ==
    IF ~r.ok \/ j > Len(t) THEN ParseFail
    ELSE IF t[j] = COMMA THEN ParseMembers(t, j + 1, MapPut(acc, key.v.s, r.v))
    ELSE IF t[j] = RBRACE THEN ParseOk(PyDict(MapPut(acc, key.v.s, r.v)), j + 1)
    ELSE ParseFail

\* the value of a member after its key: ":" and a value
MemberValue(t, key, c) ==
    IF key.ok /\ c <= Len(t) /\ t[c] = COLON THEN ParseValue(t, c + 1) ELSE ParseFail

\* the key of a member at i0: a string
MemberKey(t, i0) ==
    IF i0 <= Len(t) /\ t[i0] = QUOTE THEN ParseStrBody(t, i0 + 1, <<>>) ELSE ParseFail

\* the members of an object after "{" or ",": "key" : value, then "," or "}"
ParseMembers(t, i, acc) ==
    Only({ Only({ Only({ AfterMember(t, key, r, j, acc) : j \in {SkipWs(t, r.i)} }) :
                  r \in {Only({ MemberValue(t, key, c) : c \in {SkipWs(t, key.i)} })} }) :
           key \in {Only({ MemberKey(t, i0) : i0 \in {SkipWs(t, i)} })} })

\* the value that starts at i0, the first index that holds no whitespace
ValueAt(t, i0) ==
    IF i0 > Len(t) THEN ParseFail
    ELSE IF t[i0] = QUOTE THEN ParseStrBody(t, i0 + 1, <<>>)
    ELSE IF t[i0] \in NumLits THEN ParseOk(PyNum(t[i0]), i0 + 1)
    ELSE IF t[i0] = NULLWORD THEN ParseOk(PyNone, i0 + 1)
    ELSE IF t[i0] = LBRACK THEN
        Only({ IF j <= Len(t) /\ t[j] = RBRACK THEN ParseOk(PyList(<<>>), j + 1)
               ELSE ParseElems(t, i0 + 1, <<>>) : j \in {SkipWs(t, i0 + 1)} })
    ELSE IF t[i0] = LBRACE THEN
        Only({ IF j <= Len(t) /\ t[j] = RBRACE THEN ParseOk(PyDict(EmptyMap), j + 1)
               ELSE ParseMembers(t, i0 + 1, EmptyMap) : j \in {SkipWs(t, i0 + 1)} })
    ELSE ParseFail

ParseValue(t, i) == Only({ ValueAt(t, i0) : i0 \in {SkipWs(t, i)} })

\* one value, then nothing but whitespace
LoadsText(t) ==
    Only({ IF r.ok /\ SkipWs(t, r.i) > Len(t) THEN r ELSE ParseFail : r \in {ParseValue(t, 1)} })

\* json.loads
Loads(text) == Only({ LoadsText(t) : t \in {text} })

----------------------------------------------------------------------------
(* clean_json_str *)

RECURSIVE DropSpace(_)
DropSpace(s) == IF s # <<>> /\ IsSpace(Head(s)) THEN DropSpace(Tail(s)) ELSE s

StartsWith(s, p) == Len(s) >= Len(p) /\ SubSeq(s, 1, Len(p)) = p

Drop(s, n) == SubSeq(s, n + 1, Len(s))

\* re.sub of the json fence (three backticks, json, any whitespace) by "":
\* every leftmost non-overlapping match is removed
RECURSIVE SubFenceJson(_)
SubFenceJson(s) ==
    IF s = <<>> THEN <<>>
    ELSE IF StartsWith(s, <<BT, BT, BT, JSONWORD>>) THEN SubFenceJson(DropSpace(Drop(s, 4)))
    ELSE <<Head(s)>> \o SubFenceJson(Tail(s))

\* re.sub of three backticks by ""
RECURSIVE SubFence(_)
SubFence(s) ==
    IF s = <<>> THEN <<>>
    ELSE IF StartsWith(s, <<BT, BT, BT>>) THEN SubFence(Drop(s, 3))
    ELSE <<Head(s)>> \o SubFence(Tail(s))

RECURSIVE DropSpaceEnd(_)
DropSpaceEnd(s) ==
    IF s # <<>> /\ IsSpace(s[Len(s)]) THEN DropSpaceEnd(SubSeq(s, 1, Len(s) - 1)) ELSE s

\* str.strip()
Strip(s) == DropSpaceEnd(DropSpace(s))

clean_json_str(s) == Strip(SubFence(SubFenceJson(s)))

----------------------------------------------------------------------------
(* The remote repository behind get_repo(): one versioned file per path.   *)
(* A file is [exists, content, sha]; every successful write gives the file *)
(* a sha no write has given before (shaCtr).  A call with fault = TRUE     *)
(* raises whatever the state (network or permission error).                *)

Coll == {"events.json", "finance.json", "notes.json"}

\* the sha DataManager.load returns when get_contents raises: None
NoSha == 0

MissingFile == [exists |-> FALSE, content |-> <<>>, sha |-> NoSha]

\* repo.get_contents(path): raises for a missing file
get_contents(file, fault) ==
    IF fault \/ ~file.exists
    THEN [raised |-> TRUE, content |-> <<>>, sha |-> NoSha]
    ELSE [raised |-> FALSE, content |-> file.content, sha |-> file.sha]

\* repo.update_file(path, msg, content, sha): accepted only with the sha
\* the file has now
update_file(file, content, sha, newSha, fault) ==
    IF fault \/ ~file.exists \/ sha # file.sha
    THEN [raised |-> TRUE, file |-> file]
    ELSE [raised |-> FALSE, file |-> [exists |-> TRUE, content |-> content, sha |-> newSha]]

\* repo.create_file(path, msg, content): accepted only for a missing file
create_file(file, content, newSha, fault) ==
    IF fault \/ file.exists
    THEN [raised |-> TRUE, file |-> file]
    ELSE [raised |-> FALSE, file |-> [exists |-> TRUE, content |-> content, sha |-> newSha]]

----------------------------------------------------------------------------
(* DataManager *)

\* a load whose parse errors reach the outer except
load_outer_except(file, fault) ==
    LET contents == get_contents(file, fault)
        parsed == Loads(contents.content)
    IN IF contents.raised \/ ~parsed.ok
       THEN [raised |-> FALSE, data |-> PyList(<<>>), sha |-> NoSha]
       ELSE [raised |-> FALSE,
             data |-> IF IsList(parsed.v) THEN parsed.v ELSE PyList(<<>>),
             sha |-> contents.sha]

\* a load without the isinstance check
load_no_isinstance(file, fault) ==
    LET contents == get_contents(file, fault)
        parsed == Loads(contents.content)
    IN IF contents.raised THEN [raised |-> FALSE, data |-> PyList(<<>>), sha |-> NoSha]
       ELSE IF ~parsed.ok THEN [raised |-> FALSE, data |-> PyList(<<>>), sha |-> contents.sha]
       ELSE [raised |-> FALSE, data |-> parsed.v, sha |-> contents.sha]

\* DataManager.load: (data, sha); raised says whether an exception leaves it
load(file, fault) ==
    LET contents == get_contents(file, fault) IN
    IF contents.raised
    THEN [raised |-> FALSE, data |-> PyList(<<>>), sha |-> NoSha]
    ELSE LET parsed == Loads(contents.content) IN
         IF ~parsed.ok
         THEN [raised |-> FALSE, data |-> PyList(<<>>), sha |-> contents.sha]
         ELSE [raised |-> FALSE,
               data |-> IF IsList(parsed.v) THEN parsed.v ELSE PyList(<<>>),
               sha |-> contents.sha]

\* a save that fetches the file's sha itself instead of using the caller's
save_fresh_sha(file, data, sha, newSha, fault) ==
    LET content == Dumps(data)
        w == IF file.exists
             THEN update_file(file, content, file.sha, newSha, fault)
             ELSE create_file(file, content, newSha, fault)
    IN [ok |-> ~w.raised, file |-> w.file, calls |-> 1, toast |-> w.raised]

\* a save that, when the write is refused, fetches the sha and writes again
save_retry(file, data, sha, newSha, fault) ==
    LET content == Dumps(data)
        w == IF sha # NoSha
             THEN update_file(file, content, sha, newSha, fault)
             ELSE create_file(file, content, newSha, fault)
        again == update_file(file, content, file.sha, newSha, FALSE)
    IN IF w.raised
       THEN [ok |-> ~again.raised, file |-> again.file, calls |-> 2, toast |-> again.raised]
       ELSE [ok |-> TRUE, file |-> w.file, calls |-> 1, toast |-> FALSE]

\* DataManager.save: ok is the value returned, file the file afterwards,
\* calls the number of write calls made to the repository, toast whether
\* the failure toast was shown
save(file, data, sha, newSha, fault) ==
    LET content == Dumps(data)
        w == IF sha # NoSha
             THEN update_file(file, content, sha, newSha, fault)
             ELSE create_file(file, content, newSha, fault)
    IN [ok |-> ~w.raised, file |-> w.file, calls |-> 1, toast |-> w.raised]

----------------------------------------------------------------------------
(* Extraction.  resp is the outcome of client.chat.completions.create:     *)
(* raised (the call fails, or the reply has no text), or content, the      *)
(* text of response.choices[0].message.content.                            *)

\* an ai_parse_calendar that returns whatever the reply parses to
ai_parse_calendar_no_wrap(resp) ==
    IF resp.raised THEN PyList(<<>>)
    ELSE LET res == Loads(clean_json_str(resp.content)) IN
         IF ~res.ok THEN PyList(<<>>) ELSE res.v

\* ai_parse_calendar: the try block, with its bare except
ai_parse_calendar(resp) ==
    IF resp.raised THEN PyList(<<>>)
    ELSE LET res == Loads(clean_json_str(resp.content)) IN
         IF ~res.ok THEN PyList(<<>>)
         ELSE IF IsList(res.v) THEN res.v ELSE PyList(<<res.v>>)

\* an ai_parse_finance that falls back to a placeholder record
ai_parse_finance_placeholder(resp) ==
    LET placeholder == PyDict(MapPut(EmptyMap, <<"item">>, PyStr(<<"unknown">>)))
        res == IF resp.raised THEN ParseFail ELSE Loads(clean_json_str(resp.content))
    IN IF ~res.ok THEN placeholder ELSE res.v

\* ai_parse_finance: the try block, with its bare except
ai_parse_finance(resp) ==
    IF resp.raised THEN PyNone
    ELSE LET res == Loads(clean_json_str(resp.content)) IN
         IF ~res.ok THEN PyNone ELSE res.v

----------------------------------------------------------------------------
(* Sample values and texts *)

Word(w) == PyStr(<<w>>)
Dict1(k1, v1) == PyDict(MapPut(EmptyMap, <<k1>>, v1))
Dict2(k1, v1, k2, v2) == PyDict(MapPut(MapPut(EmptyMap, <<k1>>, v1), <<k2>>, v2))
Event(start, title) == Dict2("start", PyStr(start), "title", PyStr(title))
Expense(item, amount) == Dict2("item", Word(item), "amount", PyNum(amount))
Note(content, date) == Dict2("content", PyStr(content), "date", Word(date))

\* a reply wrapped in a markdown fence
Fenced(t) == <<BT, BT, BT, JSONWORD, NL>> \o t \o <<NL, BT, BT, BT>>

----------------------------------------------------------------------------
(* State *)

VARIABLES
    files,        \* the repository: path -> [exists, content, sha]
    shaCtr,       \* the last sha the repository gave out
    faults,       \* how many calls have been made to fail so far
    lastSave,     \* the last DataManager.save call: arguments, file before and after
    consumed,     \* path -> the shas that successful saves were called with
    lastWritten,  \* path -> the data of the last successful save
    cl,           \* clients calling DataManager.load / save directly
    ops,          \* how many calls the clients have made
    ex,           \* one extraction: the reply and what each function returns
    sess,         \* the Streamlit sessions running app.py's handlers
    runs          \* how many interactions the sessions have started

vars == <<files, shaCtr, faults, lastSave, consumed, lastWritten, cl, ops, ex, sess, runs>>

Sessions == {1, 2}

\* bounds of the model
MaxOps == 3
MaxFaults == 1
MaxRuns == 2

\* whether the next call to the repository or the model may be made to fail
FaultChoices == IF faults < MaxFaults THEN BOOLEAN ELSE {FALSE}
CountFault(fault) == IF fault THEN faults + 1 ELSE faults

NoSave ==
    [valid |-> FALSE, by |-> 0, coll |-> "", supplied |-> NoSha, data |-> PyList(<<>>),
     pre |-> MissingFile, post |-> MissingFile, ok |-> FALSE, calls |-> 0, reused |-> FALSE,
     fault |-> FALSE]

NothingWritten == [has |-> FALSE, data |-> PyList(<<>>)]

\* one call of DataManager(c).save(data, sha) by `by`, and what it leaves
SaveResult(c, data, sha, fault) == save(files[c], data, sha, shaCtr + 1, fault)

DoSave(by, c, data, sha, fault, r) ==
    /\ files' = [files EXCEPT ![c] = r.file]
    /\ shaCtr' = IF r.ok THEN shaCtr + 1 ELSE shaCtr
    /\ faults' = CountFault(fault)
    /\ lastSave' = [valid |-> TRUE, by |-> by, coll |-> c, supplied |-> sha, data |-> data,
                    pre |-> files[c], post |-> r.file, ok |-> r.ok, calls |-> r.calls,
                    reused |-> sha \in consumed[c], fault |-> fault]
    /\ consumed' = IF r.ok THEN [consumed EXCEPT ![c] = @ \cup {sha}] ELSE consumed
    /\ lastWritten' = IF r.ok THEN [lastWritten EXCEPT ![c] = [has |-> TRUE, data |-> data]]
                      ELSE lastWritten

ClientIdle ==
    [op |-> "none", data |-> PyList(<<>>), sha |-> NoSha, fault |-> FALSE, raised |-> FALSE,
     pre |-> MissingFile, expect |-> NothingWritten, ok |-> FALSE]

NoReply == [raised |-> TRUE, content |-> <<>>, known |-> FALSE, v |-> PyNone]

ExIdle == [stage |-> "none", resp |-> NoReply, cal |-> PyNone, fin |-> PyNone]

SessIdle ==
    [pc |-> "idle", kind |-> "none", coll |-> "", data |-> PyList(<<>>), sha |-> NoSha,
     loaded |-> PyList(<<>>), loadMissing |-> FALSE, loadFault |-> FALSE,
     resp |-> NoReply, items |-> PyNone, sel |-> {}, added |-> 0,
     saves |-> 0, saved |-> "none", saveFault |-> FALSE, raised |-> FALSE, notices |-> {},
     steps |-> <<>>]

----------------------------------------------------------------------------
(* DataManager called directly: two clients, one file, every kind of       *)
(* backing content                                                         *)

StoreColl == "notes.json"

Tricky == <<"a", QUOTE, BSLASH, NL, "e-acute", BT, BT, BT, SP>>

SaveLists ==
    { PyList(<<>>),
      PyList(<<Note(Tricky, "d1")>>),
      PyList(<<Expense("coffee", "-20"), Event(<<"s1">>, <<"t1">>)>>),
      PyList(<<PyNone, PyList(<<PyNum("5")>>), PyDict(EmptyMap), Word("x")>>) }

\* backing texts whose top-level value is a JSON array
ValidArrayTexts ==
    { <<LBRACK, RBRACK>>,
      <<SP, LBRACK, "5", COMMA, NULLWORD, RBRACK, NL>>,
      Dumps(PyList(<<Note(<<"n1">>, "d0")>>)) }

\* backing texts that are not JSON, or JSON whose top-level value is no array
InvalidJsonTexts ==
    { <<>>,
      <<LBRACK, LBRACE>>,
      <<LBRACK, "5", COMMA, RBRACK>>,
      <<"oops">>,
      Fenced(<<LBRACK, RBRACK>>) }

NonArrayTexts ==
    { <<LBRACE, RBRACE>>,
      Dumps(Note(<<"n1">>, "d0")),
      <<"5">>,
      <<NULLWORD>>,
      DumpStr(<<"a">>) }

BackingTexts == ValidArrayTexts \cup InvalidJsonTexts \cup NonArrayTexts

InitFiles(c, others) ==
    \E f \in {MissingFile} \cup {[exists |-> TRUE, content |-> t, sha |-> 1] : t \in BackingTexts} :
        files = [x \in Coll |-> IF x = c THEN f ELSE others]

InitCommon ==
    /\ shaCtr = 1
    /\ faults = 0
    /\ lastSave = NoSave
    /\ consumed = [c \in Coll |-> {}]
    /\ lastWritten = [c \in Coll |-> NothingWritten]
    /\ cl = [i \in Sessions |-> ClientIdle]
    /\ ops = 0
    /\ runs = 0

InitStore ==
    /\ InitCommon
    /\ InitFiles(StoreColl, MissingFile)
    /\ ex = ExIdle
    /\ sess = [i \in Sessions |-> SessIdle]

\* client i calls DataManager(StoreColl).load()
StoreLoad(i) ==
    /\ ops < MaxOps
    /\ \E fault \in FaultChoices : \E r \in {load(files[StoreColl], fault)} :
        /\ cl' = [cl EXCEPT ![i] =
                    [op |-> "load", data |-> r.data, sha |-> r.sha, fault |-> fault,
                     raised |-> r.raised, pre |-> files[StoreColl],
                     expect |-> lastWritten[StoreColl], ok |-> FALSE]]
        /\ faults' = CountFault(fault)
    /\ ops' = ops + 1
    /\ UNCHANGED <<files, shaCtr, lastSave, consumed, lastWritten, ex, sess, runs>>

\* client i calls DataManager(StoreColl).save(d, sha) with the sha of its last load
StoreSave(i) ==
    /\ ops < MaxOps
    /\ cl[i].op # "none"
    /\ \E d \in SaveLists, fault \in FaultChoices :
        \E r \in {SaveResult(StoreColl, d, cl[i].sha, fault)} :
            /\ DoSave(i, StoreColl, d, cl[i].sha, fault, r)
            /\ cl' = [cl EXCEPT ![i].op = "save", ![i].ok = r.ok]
    /\ ops' = ops + 1
    /\ UNCHANGED <<ex, sess, runs>>

NextStore == \E i \in Sessions : StoreLoad(i) \/ StoreSave(i)

SpecStore == InitStore /\ [][NextStore]_vars

----------------------------------------------------------------------------
(* Claims about DataManager, checked under SpecStore *)

\* what the repository's rule admits: the sha of the file, or none for a missing file
TokenMatches(sv) ==
    \/ sv.supplied # NoSha /\ sv.pre.exists /\ sv.supplied = sv.pre.sha
    \/ sv.supplied = NoSha /\ ~sv.pre.exists

\* C1: a save is accepted only if the sha it supplies is the file's current
\* sha, or it supplies none and the file does not exist; with a matching sha
\* and no repository error it is accepted; a save that supplies a sha (or
\* none) an earlier successful save already supplied fails and leaves the
\* file as it was.
C1_ConditionalWrite ==
    lastSave.valid =>
        /\ lastSave.ok => TokenMatches(lastSave)
        /\ (TokenMatches(lastSave) /\ ~lastSave.fault) => lastSave.ok
        /\ lastSave.reused => (~lastSave.ok /\ lastSave.post = lastSave.pre)

C1_Witness ==
    /\ lastSave.valid /\ lastSave.reused /\ ~lastSave.fault /\ ~lastSave.ok
    /\ lastSave.supplied # NoSha
    /\ lastSave.post = lastSave.pre
    /\ cl[lastSave.by].pre.sha = lastSave.supplied

\* the ways a load fails
RetrievalError(c) == c.fault \/ ~c.pre.exists
ParseError(c) == ~RetrievalError(c) /\ c.pre.content \in InvalidJsonTexts \cup NonArrayTexts

C4_LoadReturnsList ==
    \A i \in Sessions :
        cl[i].op = "load" =>
            /\ IsList(cl[i].data)
            /\ (RetrievalError(cl[i]) \/ ParseError(cl[i])) => cl[i].data.items = <<>>

C4_Witness ==
    \E i \in Sessions :
        /\ cl[i].op = "load" /\ ~cl[i].fault
        /\ cl[i].pre.content = Dumps(Note(<<"n1">>, "d0"))
        /\ cl[i].data = PyList(<<>>)

\* C5: a load that follows a successful save of the same file, with no write
\* in between and no repository error, returns the list that was saved; the
\* save may be the one that created the file.
C5_RoundTrip ==
    \A i \in Sessions :
        (cl[i].op = "load" /\ ~cl[i].fault /\ cl[i].expect.has) =>
            cl[i].data = cl[i].expect.data

C5_Witness ==
    \E i \in Sessions :
        /\ cl[i].op = "load" /\ ~cl[i].fault /\ cl[i].expect.has
        /\ cl[i].data = PyList(<<Note(Tricky, "d1")>>)
        /\ consumed[StoreColl] = {NoSha}

----------------------------------------------------------------------------
(* The extraction functions on their own: one reply, drawn from the        *)
(* sample replies, handed to ai_parse_calendar or to ai_parse_finance      *)

\* values a reply may carry; none has a backtick in it
ReplyValues ==
    { PyList(<<>>),
      PyList(<<Event(<<"s1">>, <<"t1">>)>>),
      PyList(<<Event(<<"s1">>, <<"t1">>), Event(<<"s2">>, <<"t1">>)>>),
      PyList(<<Expense("coffee", "-20")>>),
      PyList(<<PyNum("5"), Word("x")>>),
      Event(<<"s1">>, <<"t1">>),
      Expense("coffee", "-20"),
      Dict1("title", PyStr(<<"a", QUOTE, NL>>)),
      PyDict(EmptyMap),
      PyNum("5"), PyNum("0"), PyNone, Word("a"), PyStr(<<>>) }

\* a value whose title holds a run of three backticks
BacktickValue == Event(<<"s1">>, <<"see", BT, BT, BT, "x">>)

\* texts that are not JSON: empty, garbage, cut short, with a tail
BrokenTexts ==
    { <<>>,
      <<"oops">>,
      <<LBRACK, LBRACE>>,
      <<LBRACK>> \o Dumps(Event(<<"s1">>, <<"t1">>)) \o <<COMMA>>,
      Dumps(Event(<<"s1">>, <<"t1">>)) \o <<RBRACE>> }

\* the ways a model dresses its reply
Bare(t) == t
FencedPadded(t) == <<SP, NL>> \o Fenced(t) \o <<NL>>
FencedPlain(t) == <<BT, BT, BT, NL>> \o t \o <<NL, BT, BT, BT>>
Chatty(t) == <<"Sure", SP>> \o Fenced(t)

Dress(w, t) ==
    CASE w = "bare" -> Bare(t)
      [] w = "fenced" -> Fenced(t)
      [] w = "padded" -> FencedPadded(t)
      [] w = "plain" -> FencedPlain(t)
      [] w = "chatty" -> Chatty(t)

CleanDress == {"bare", "fenced", "padded", "plain"}

Replies ==
    {NoReply}
    \cup {[raised |-> FALSE, content |-> Dress(w, Dumps(v)), known |-> TRUE, v |-> v] :
            w \in CleanDress, v \in ReplyValues}
    \cup {[raised |-> FALSE, content |-> Dress(w, t), known |-> FALSE, v |-> PyNone] :
            w \in CleanDress, t \in BrokenTexts}
    \cup {[raised |-> FALSE, content |-> Dress("chatty", Dumps(v)), known |-> FALSE, v |-> PyNone] :
            v \in ReplyValues}
    \cup {[raised |-> FALSE, content |-> Dress(w, Dumps(BacktickValue)), known |-> FALSE,
           v |-> BacktickValue] : w \in CleanDress}

InitExtract ==
    /\ InitCommon
    /\ files = [c \in Coll |-> MissingFile]
    /\ sess = [i \in Sessions |-> SessIdle]
    /\ \E r \in Replies : ex = [stage |-> "reply", resp |-> r, cal |-> PyNone, fin |-> PyNone]

ExtractCalendar ==
    /\ ex.stage = "reply"
    /\ ex' = [ex EXCEPT !.stage = "cal", !.cal = ai_parse_calendar(ex.resp)]
    /\ UNCHANGED <<files, shaCtr, faults, lastSave, consumed, lastWritten, cl, ops, sess, runs>>

ExtractFinance ==
    /\ ex.stage = "reply"
    /\ ex' = [ex EXCEPT !.stage = "fin", !.fin = ai_parse_finance(ex.resp)]
    /\ UNCHANGED <<files, shaCtr, faults, lastSave, consumed, lastWritten, cl, ops, sess, runs>>

NextExtract == ExtractCalendar \/ ExtractFinance

SpecExtract == InitExtract /\ [][NextExtract]_vars

\* what the cleaned reply parses to (ParseFail when there is no reply)
ParsedReply(resp) == IF resp.raised THEN ParseFail ELSE Loads(clean_json_str(resp.content))

\* C9: calendar extraction always returns a list; when the reply parses to a
\* JSON array that array is returned as is, and when it parses to a single
\* object the result is the one-element list holding that object.  For a
\* reply that carries a known value (bare or in a fence) the array or object
\* is that value.
C9_CalendarReturnsList ==
    ex.stage = "cal" =>
        LET p == ParsedReply(ex.resp) IN
        /\ IsList(ex.cal)
        /\ (p.ok /\ IsList(p.v)) => ex.cal = p.v
        /\ (p.ok /\ IsDict(p.v)) => ex.cal = PyList(<<p.v>>)
        /\ (ex.resp.known /\ IsList(ex.resp.v)) => ex.cal = ex.resp.v
        /\ (ex.resp.known /\ IsDict(ex.resp.v)) => ex.cal = PyList(<<ex.resp.v>>)

C9_Witness ==
    /\ ex.stage = "cal"
    /\ ex.resp.content = Dumps(Event(<<"s1">>, <<"t1">>))
    /\ ex.cal = PyList(<<Event(<<"s1">>, <<"t1">>)>>)

\* a reply that is the JSON text of its value inside a json fence
FencedJson(resp) ==
    /\ ~resp.raised
    /\ resp.content \in {Fenced(Dumps(resp.v)), FencedPadded(Dumps(resp.v))}

\* C12 as stated: for a reply that is a JSON text inside a json fence, with
\* or without space around the fence, and also when a string of the JSON
\* holds a run of backticks, clean_json_str returns the text inside the
\* fence, and the extraction functions get the value that the text parses to
\* without the fence.
C12_Original ==
    (ex.stage # "reply" /\ FencedJson(ex.resp)) =>
        /\ clean_json_str(ex.resp.content) = Dumps(ex.resp.v)
        /\ ParsedReply(ex.resp) = Loads(Dumps(ex.resp.v))
        /\ ex.stage = "cal" =>
                ex.cal = ai_parse_calendar([ex.resp EXCEPT !.content = Dumps(ex.resp.v)])
        /\ ex.stage = "fin" =>
                ex.fin = ai_parse_finance([ex.resp EXCEPT !.content = Dumps(ex.resp.v)])

----------------------------------------------------------------------------
(* The handlers of app.py.  A session runs one interaction at a time; each  *)
(* action is one call to the repository or to the model together with the  *)
(* local code around it, so that the calls of two sessions interleave.      *)

Get(d, key) == IF key \in DOMAIN d.f THEN d.f[key] ELSE PyNone

\* what an f-string makes of a value
Format(v) ==
    CASE v.k = "str" -> v.s
      [] v.k = "none" -> <<"None">>
      [] v.k = "num" -> <<v.lit>>
      [] OTHER -> Dumps(v)

K_start == <<"start">>
K_title == <<"title">>
K_item == <<"item">>

\* line 276: e['start'], e['title'] raise unless e is a dict with both keys
ExistingKeysOk(e) == IsDict(e) /\ K_start \in DOMAIN e.f /\ K_title \in DOMAIN e.f
ExistingFingerprint(e) == Format(e.f[K_start]) \o <<"_">> \o Format(e.f[K_title])

\* line 280: item.get raises unless item is a dict
CandidateFingerprint(item) == Format(Get(item, K_start)) \o <<"_">> \o Format(Get(item, K_title))

\* lines 279-284: the loop over new_items
RECURSIVE MergeLoop(_, _, _, _)
MergeLoop(new_items, events_data, fps, added_count) ==
    IF new_items = <<>>
    THEN [raised |-> FALSE, data |-> events_data, added |-> added_count]
    ELSE LET item == Head(new_items) IN
         IF ~IsDict(item)
         THEN [raised |-> TRUE, data |-> events_data, added |-> added_count]
         ELSE LET fp == CandidateFingerprint(item) IN
              IF fp \notin fps
              THEN MergeLoop(Tail(new_items), Append(events_data, item), fps \cup {fp},
                             added_count + 1)
              ELSE MergeLoop(Tail(new_items), events_data, fps, added_count)

\* lines 276-284
Dedupe(events_data, new_items) ==
    IF \E n \in 1..Len(events_data) : ~ExistingKeysOk(events_data[n])
    THEN [raised |-> TRUE, data |-> events_data, added |-> 0]
    ELSE MergeLoop(new_items, events_data,
                   {ExistingFingerprint(events_data[n]) : n \in 1..Len(events_data)}, 0)

\* an import that saves whatever the merge added
has_new_always(added_count) == TRUE

\* line 286: if added_count > 0
has_new(added_count) == added_count > 0

\* line 352: f_data.append(record)
append_record(f_data, record) == Append(f_data, record)

\* an insert that drops the notes already there
insert_note_only(n_data, note) == <<note>>

\* lines 418-421: n_data.insert(0, note)
insert_note(n_data, note) == <<note>> \o n_data

\* lines 326-328: pop the selected positions, highest first
RemoveAt(seq, n) == SubSeq(seq, 1, n - 1) \o SubSeq(seq, n + 1, Len(seq))

\* a loop that pops the selected positions lowest first
RECURSIVE PopSelected_ascending(_, _)
PopSelected_ascending(events_data, sel) ==
    IF sel = {} THEN events_data
    ELSE LET n == CHOOSE m \in sel : \A o \in sel : m <= o IN
         PopSelected_ascending(IF n <= Len(events_data) THEN RemoveAt(events_data, n)
                               ELSE events_data,
                               sel \ {n})

RECURSIVE PopSelected(_, _)
PopSelected(events_data, sel) ==
    IF sel = {} THEN events_data
    ELSE LET n == CHOOSE m \in sel : \A o \in sel : o <= m IN
         PopSelected(IF n <= Len(events_data) THEN RemoveAt(events_data, n) ELSE events_data,
                     sel \ {n})

\* the samples the sessions draw on
E11 == Event(<<"s1">>, <<"t1">>)
E21 == Event(<<"s2">>, <<"t1">>)
E31 == Event(<<"s3">>, <<"t1">>)
Untitled == Dict1("start", PyStr(<<"s4">>))
X1 == Expense("coffee", "-20")
X2 == Expense("tea", "5")
N1 == Note(<<"n1">>, "d0")
N2 == Note(<<"n2">>, "d0")

Reply(t, known, v) == [raised |-> FALSE, content |-> t, known |-> known, v |-> v]
Truncated == <<LBRACK>> \o Dumps(E31) \o <<COMMA>>

CalReplies ==
    { NoReply,
      Reply(Fenced(Truncated), FALSE, PyNone),
      Reply(Fenced(Dumps(PyList(<<E11, E31>>))), TRUE, PyList(<<E11, E31>>)),
      Reply(Dumps(PyList(<<E31, E31>>)), TRUE, PyList(<<E31, E31>>)),
      Reply(Dumps(PyList(<<E11>>)), TRUE, PyList(<<E11>>)),
      Reply(Dumps(Untitled), TRUE, Untitled) }

FinReplies ==
    { NoReply,
      Reply(<<"oops">>, FALSE, PyNone),
      Reply(Fenced(Dumps(X2)), TRUE, X2),
      Reply(Dumps(PyList(<<X2>>)), TRUE, PyList(<<X2>>)),
      Reply(Dumps(Dict1("amount", PyNum("5"))), TRUE, Dict1("amount", PyNum("5"))) }

NoteContents == { <<"idea">> }
Now == "d1"

Scenarios == {"missing", "populated", "malformed"}

Existing(t) == [exists |-> TRUE, content |-> t, sha |-> 1]

ScenarioFile(scen, c) ==
    CASE scen = "missing" -> MissingFile
      [] scen = "populated" ->
            Existing(Dumps(PyList(CASE c = "events.json" -> <<E11, E21>>
                                    [] c = "finance.json" -> <<X1>>
                                    [] c = "notes.json" -> <<N1, N2>>)))
      [] scen = "malformed" ->
            Existing(CASE c = "events.json" -> Dumps(E11)
                       [] c = "finance.json" -> <<LBRACK, LBRACE>>
                       [] c = "notes.json" -> <<"5">>)

Init ==
    /\ InitCommon
    /\ \E scen \in Scenarios : files = [c \in Coll |-> ScenarioFile(scen, c)]
    /\ ex = ExIdle
    /\ sess = [i \in Sessions |-> SessIdle]

\* A session starts an interaction when it runs none.  The sessions run the
\* same code and nothing tells them apart, so the lower-numbered one is taken
\* to start first.  Handlers of different collections share no file and no
\* variable of the script, so a behaviour follows the interactions with one
\* collection: the one the first interaction addresses.
CanStart(i, c) ==
    /\ sess[i].pc \in {"idle", "done"}
    /\ runs < MaxRuns
    /\ \A j \in Sessions : j < i => sess[j].pc # "idle"
    /\ \A j \in Sessions : sess[j].coll \in {"", c}

\* the session's record when a handler begins with a load of collection c
Loaded(kind, c, r, fault, pc) ==
    [SessIdle EXCEPT !.pc = pc, !.kind = kind, !.coll = c, !.data = r.data, !.sha = r.sha,
                     !.loaded = r.data, !.loadMissing = ~files[c].exists, !.loadFault = fault,
                     !.steps = <<"load">>]

storeGhosts == <<lastSave, consumed, lastWritten>>

\* line 228, in the run the import form is submitted in (raw_text not empty)
CalLoadForImport(i) ==
    /\ CanStart(i, "events.json")
    /\ \E fault \in FaultChoices : \E r \in {load(files["events.json"], fault)} :
        /\ sess' = [sess EXCEPT ![i] = Loaded("cal_import", "events.json", r, fault, "cal_parse")]
        /\ faults' = CountFault(fault)
    /\ runs' = runs + 1
    /\ UNCHANGED <<files, shaCtr, storeGhosts, cl, ops, ex>>

\* lines 273-284 and 290-293: the model call, then the merge
CalParse(i) ==
    /\ sess[i].pc = "cal_parse"
    /\ \E resp \in CalReplies : \E new_items \in {ai_parse_calendar(resp)} :
        \E m \in {IF Truthy(new_items) THEN Dedupe(sess[i].data.items, new_items.items)
                  ELSE [raised |-> FALSE, data |-> sess[i].data.items, added |-> 0]} :
        sess' = [sess EXCEPT ![i].steps = Append(@, "extract"), ![i] =
                IF ~Truthy(new_items)
                THEN [@ EXCEPT !.pc = "done", !.resp = resp, !.items = new_items,
                               !.notices = @ \cup {"unrecognised"}]
                ELSE IF m.raised
                THEN [@ EXCEPT !.pc = "done", !.resp = resp, !.items = new_items,
                               !.data = PyList(m.data), !.added = m.added, !.raised = TRUE]
                ELSE IF has_new(m.added)
                THEN [@ EXCEPT !.pc = "cal_save", !.resp = resp, !.items = new_items,
                               !.data = PyList(m.data), !.added = m.added]
                ELSE [@ EXCEPT !.pc = "done", !.resp = resp, !.items = new_items,
                               !.data = PyList(m.data), !.notices = @ \cup {"all_duplicates"}]]
    /\ UNCHANGED <<files, shaCtr, faults, storeGhosts, cl, ops, ex, runs>>

\* what a save leaves in the session's record
AfterSave(rec, r, fault) ==
    [rec EXCEPT !.pc = "done", !.saves = @ + 1, !.saved = IF r.ok THEN "ok" ELSE "fail",
                !.saveFault = fault, !.steps = Append(@, "save"),
                !.notices = IF r.toast THEN @ \cup {"save_failed"} ELSE @]

\* lines 287-289
CalSave(i) ==
    /\ sess[i].pc = "cal_save"
    /\ \E fault \in FaultChoices :
        \E r \in {SaveResult("events.json", sess[i].data, sess[i].sha, fault)} :
            /\ DoSave(i, "events.json", sess[i].data, sess[i].sha, fault, r)
            /\ sess' = [sess EXCEPT ![i] =
                    [AfterSave(@, r, fault) EXCEPT !.notices = @ \cup {"imported"}]]
    /\ UNCHANGED <<cl, ops, ex, runs>>

\* lines 299-309: the table of the batch panel is drawn for a non-empty list
\* of dicts of which one at least has a title
EditorShown(events_data) ==
    /\ events_data # <<>>
    /\ \A n \in 1..Len(events_data) : IsDict(events_data[n])
    /\ \E n \in 1..Len(events_data) : K_title \in DOMAIN events_data[n].f

\* line 228 and lines 321-324, in the run the delete button is pressed in:
\* sel are the rows ticked in the table
CalLoadForDelete(i) ==
    /\ CanStart(i, "events.json")
    /\ \E fault \in FaultChoices : \E r \in {load(files["events.json"], fault)} :
        /\ EditorShown(r.data.items)
        /\ \E sel \in SUBSET (1..Len(r.data.items)) \ {{}} :
            sess' = [sess EXCEPT ![i] =
                [Loaded("cal_delete", "events.json", r, fault, "cal_delete") EXCEPT !.sel = sel]]
        /\ faults' = CountFault(fault)
    /\ runs' = runs + 1
    /\ UNCHANGED <<files, shaCtr, storeGhosts, cl, ops, ex>>

\* lines 326-331
CalDelete(i) ==
    /\ sess[i].pc = "cal_delete"
    /\ \E fault \in FaultChoices :
        \E events_data \in {PyList(PopSelected(sess[i].data.items, sess[i].sel))} :
        \E r \in {SaveResult("events.json", events_data, sess[i].sha, fault)} :
            /\ DoSave(i, "events.json", events_data, sess[i].sha, fault, r)
            /\ sess' = [sess EXCEPT ![i] =
                    [AfterSave(@, r, fault)
                        EXCEPT !.data = events_data, !.notices = @ \cup {"deleted"}]]
    /\ UNCHANGED <<cl, ops, ex, runs>>

\* lines 347-350: the model call for a chat input that is not empty
FinParse(i) ==
    /\ CanStart(i, "finance.json")
    /\ \E resp \in FinReplies : \E record \in {ai_parse_finance(resp)} :
        sess' = [sess EXCEPT ![i] =
            [SessIdle EXCEPT !.kind = "fin_add", !.coll = "finance.json", !.resp = resp,
                             !.items = record, !.steps = <<"extract">>,
                             !.pc = IF Truthy(record) THEN "fin_load" ELSE "done"]]
    /\ runs' = runs + 1
    /\ UNCHANGED <<files, shaCtr, faults, storeGhosts, cl, ops, ex>>

\* line 351
FinLoad(i) ==
    /\ sess[i].pc = "fin_load"
    /\ \E fault \in FaultChoices : \E r \in {load(files["finance.json"], fault)} :
        /\ sess' = [sess EXCEPT ![i] =
                [@ EXCEPT !.pc = "fin_save", !.data = r.data, !.sha = r.sha, !.loaded = r.data,
                          !.steps = Append(@, "load"),
                          !.loadMissing = ~files["finance.json"].exists, !.loadFault = fault]]
        /\ faults' = CountFault(fault)
    /\ UNCHANGED <<files, shaCtr, storeGhosts, cl, ops, ex, runs>>

\* line 354: record['item'] raises unless record is a dict with an item
ItemReadable(record) == IsDict(record) /\ K_item \in DOMAIN record.f

\* lines 352-355
FinSave(i) ==
    /\ sess[i].pc = "fin_save"
    /\ \E fault \in FaultChoices :
        \E f_data \in {PyList(append_record(sess[i].data.items, sess[i].items))} :
        \E r \in {SaveResult("finance.json", f_data, sess[i].sha, fault)} :
            /\ DoSave(i, "finance.json", f_data, sess[i].sha, fault, r)
            /\ sess' = [sess EXCEPT ![i] =
                    [AfterSave(@, r, fault)
                        EXCEPT !.data = f_data,
                               !.raised = ~ItemReadable(sess[i].items),
                               !.notices = IF ItemReadable(sess[i].items)
                                           THEN @ \cup {"recorded"} ELSE @]]
    /\ UNCHANGED <<cl, ops, ex, runs>>

\* lines 415-417: the note form submitted with a text that is not empty
NoteLoadForAdd(i) ==
    /\ CanStart(i, "notes.json")
    /\ \E n_content \in NoteContents, fault \in FaultChoices :
        \E r \in {load(files["notes.json"], fault)} :
        /\ sess' = [sess EXCEPT ![i] =
                [Loaded("note_add", "notes.json", r, fault, "note_save")
                    EXCEPT !.items = Note(n_content, Now)]]
        /\ faults' = CountFault(fault)
    /\ runs' = runs + 1
    /\ UNCHANGED <<files, shaCtr, storeGhosts, cl, ops, ex>>

\* lines 418-423
NoteSave(i) ==
    /\ sess[i].pc = "note_save"
    /\ \E fault \in FaultChoices :
        \E n_data \in {PyList(insert_note(sess[i].data.items, sess[i].items))} :
        \E r \in {SaveResult("notes.json", n_data, sess[i].sha, fault)} :
            /\ DoSave(i, "notes.json", n_data, sess[i].sha, fault, r)
            /\ sess' = [sess EXCEPT ![i] = [AfterSave(@, r, fault) EXCEPT !.data = n_data]]
    /\ UNCHANGED <<cl, ops, ex, runs>>

\* lines 426-449, in the run a delete button is pressed in: the button of
\* note n is reached when the notes up to n were drawn (note.get needs a dict)
NoteLoadForDelete(i) ==
    /\ CanStart(i, "notes.json")
    /\ \E fault \in FaultChoices : \E r \in {load(files["notes.json"], fault)} :
        /\ \E n \in 1..Len(r.data.items) :
            /\ \A m \in 1..n : IsDict(r.data.items[m])
            /\ sess' = [sess EXCEPT ![i] =
                    [Loaded("note_delete", "notes.json", r, fault, "note_delete")
                        EXCEPT !.sel = {n}]]
        /\ faults' = CountFault(fault)
    /\ runs' = runs + 1
    /\ UNCHANGED <<files, shaCtr, storeGhosts, cl, ops, ex>>

\* lines 450-452
NoteDelete(i) ==
    /\ sess[i].pc = "note_delete"
    /\ \E fault \in FaultChoices, n \in sess[i].sel :
        \E n_data \in {PyList(RemoveAt(sess[i].data.items, n))} :
        \E r \in {SaveResult("notes.json", n_data, sess[i].sha, fault)} :
            /\ DoSave(i, "notes.json", n_data, sess[i].sha, fault, r)
            /\ sess' = [sess EXCEPT ![i] = [AfterSave(@, r, fault) EXCEPT !.data = n_data]]
    /\ UNCHANGED <<cl, ops, ex, runs>>

Next ==
    \E i \in Sessions :
        \/ CalLoadForImport(i) \/ CalParse(i) \/ CalSave(i)
        \/ CalLoadForDelete(i) \/ CalDelete(i)
        \/ FinParse(i) \/ FinLoad(i) \/ FinSave(i)
        \/ NoteLoadForAdd(i) \/ NoteSave(i)
        \/ NoteLoadForDelete(i) \/ NoteDelete(i)

Spec == Init /\ [][Next]_vars

----------------------------------------------------------------------------
(* Claims about the handlers, checked under Spec *)

Saved(i) == sess[i].saved # "none"

\* two sessions that loaded the same state of one collection and have both saved
SameLoad(i, j) ==
    /\ i # j /\ Saved(i) /\ Saved(j)
    /\ sess[i].coll = sess[j].coll
    /\ sess[i].sha = sess[j].sha
    /\ sess[i].sha = NoSha => (sess[i].loadMissing /\ sess[j].loadMissing)

\* C2: when two sessions load the same collection, get the same sha (or both
\* get none because the file is missing) and each save their changed list,
\* then, the repository answering both saves, exactly one save succeeds and
\* the other is refused, and the file holds the list of the one that succeeded.
C2_OneWriterWins ==
    \A i, j \in Sessions :
        (SameLoad(i, j) /\ ~sess[i].saveFault /\ ~sess[j].saveFault) =>
            /\ (sess[i].saved = "ok") # (sess[j].saved = "ok")
            /\ sess[i].saved = "ok" =>
                    /\ files[sess[i].coll].content = Dumps(sess[i].data)
                    /\ Loads(files[sess[i].coll].content).v = sess[i].data

C2_Witness ==
    /\ SameLoad(1, 2)
    /\ sess[1].kind = "fin_add" /\ sess[2].kind = "fin_add"
    /\ sess[1].sha # NoSha
    /\ sess[1].saved = "fail" /\ sess[2].saved = "ok"
    /\ files["finance.json"].content = Dumps(sess[2].data)

\* C6: a save that meets a stale sha, a create of a file that exists, or a
\* repository error returns False and leaves the file, content and sha, as it
\* was; a save makes one write call to the repository, and an interaction
\* makes one save call at most.
C6_FailedSaveNoRetry ==
    /\ lastSave.valid =>
        /\ lastSave.calls <= 1
        /\ (lastSave.fault \/ ~TokenMatches(lastSave)) =>
                (~lastSave.ok /\ lastSave.post = lastSave.pre)
    /\ \A i \in Sessions :
        /\ sess[i].saves <= 1
        /\ sess[i].saved = "fail" => (lastSave.by = i => ~lastSave.ok)

C6_Witness ==
    /\ lastSave.valid /\ ~lastSave.fault /\ ~lastSave.ok
    /\ lastSave.supplied # NoSha /\ lastSave.pre.exists /\ lastSave.pre.sha # lastSave.supplied
    /\ lastSave.post = lastSave.pre
    /\ sess[lastSave.by].saved = "fail" /\ sess[lastSave.by].saves = 1

\* the start and title of a record, none where it has none
PairOf(rec) == <<Get(rec, K_start), Get(rec, K_title)>>
\* the fingerprint of a record: its start joined with its title
FingerprintOf(rec) == Format(Get(rec, K_start)) \o <<"_">> \o Format(Get(rec, K_title))
FingerprintsOf(recs) == {FingerprintOf(recs[n]) : n \in 1..Len(recs)}

\* a session whose import has had candidates, all of them objects, to merge
Imported(i) ==
    /\ sess[i].kind = "cal_import" /\ sess[i].pc \in {"cal_save", "done"}
    /\ Truthy(sess[i].items)
    /\ \A n \in 1..Len(sess[i].items.items) : IsDict(sess[i].items.items[n])
    /\ \A n \in 1..Len(sess[i].loaded.items) : IsDict(sess[i].loaded.items[n])

\* C7 as stated: after an import the list is the loaded list followed by the
\* accepted candidates; a candidate is accepted only if its fingerprint is
\* neither among those of the loaded records nor among those accepted before
\* it; the list grows by the number of distinct candidate fingerprints that
\* the loaded records do not have; no accepted candidate has the start and
\* title of a loaded record.
C7_Original ==
    \A i \in Sessions :
        Imported(i) =>
            LET old == sess[i].loaded.items
                new == sess[i].data.items
                cand == sess[i].items.items
                acc == SubSeq(new, Len(old) + 1, Len(new))
            IN /\ Len(new) >= Len(old) /\ SubSeq(new, 1, Len(old)) = old
               /\ \A n \in 1..Len(acc) :
                    FingerprintOf(acc[n]) \notin
                        FingerprintsOf(old) \cup FingerprintsOf(SubSeq(acc, 1, n - 1))
               /\ Len(acc) = Cardinality(FingerprintsOf(cand) \ FingerprintsOf(old))
               /\ \A n \in 1..Len(acc), m \in 1..Len(old) : PairOf(acc[n]) # PairOf(old[m])

\* replies that carry no JSON value: the call failed, or the text does not parse
ExtractionFailed(resp) == ~resp.known

\* C8: when extraction fails, ai_parse_calendar returns the empty list and
\* ai_parse_finance returns None, and the interaction ends without a save
\* call and with the list it loaded: nothing of the reply is kept or written.
C8_FailedExtractionNoWrite ==
    \A i \in Sessions :
        /\ (sess[i].kind = "cal_import" /\ sess[i].pc # "cal_parse"
                /\ ExtractionFailed(sess[i].resp)) =>
            /\ sess[i].items = PyList(<<>>)
            /\ sess[i].pc = "done" /\ sess[i].saves = 0 /\ sess[i].saved = "none"
            /\ sess[i].data = sess[i].loaded
        /\ (sess[i].kind = "fin_add" /\ ExtractionFailed(sess[i].resp)) =>
            /\ sess[i].items = PyNone
            /\ sess[i].pc = "done" /\ sess[i].saves = 0 /\ sess[i].saved = "none"

C8_Witness ==
    \E i \in Sessions :
        /\ sess[i].kind = "cal_import" /\ sess[i].pc = "done"
        /\ sess[i].resp.content = Fenced(Truncated)
        /\ sess[i].items = PyList(<<>>) /\ sess[i].saves = 0
        /\ files["events.json"].exists /\ files["events.json"].sha = sess[i].sha

\* C10 as stated: finance extraction returns one record or None; for a reply
\* that is a JSON array it returns the first element, None if there is none;
\* it never returns a list, and no list is appended to the finance records.
C10_Original ==
    /\ \A i \in Sessions :
        sess[i].kind = "fin_add" =>
            /\ ~IsList(sess[i].items)
            /\ (sess[i].resp.known /\ IsList(sess[i].resp.v)) =>
                    sess[i].items = IF sess[i].resp.v.items = <<>> THEN PyNone
                                    ELSE sess[i].resp.v.items[1]
    /\ (lastSave.valid /\ lastSave.coll = "finance.json") =>
            \A n \in 1..Len(lastSave.data.items) : ~IsList(lastSave.data.items[n])

\* C11 as stated: in every interaction that saves, the sha passed to save
\* was returned by a load of the same collection in the same interaction,
\* and the load is the step right before the save: no call to the model
\* lies between them.
C11_Original ==
    \A i \in Sessions :
        Saved(i) =>
            LET s == sess[i].steps IN
            /\ Len(s) >= 2 /\ s[Len(s)] = "save" /\ s[Len(s) - 1] = "load"
            /\ lastSave.by = i => (lastSave.coll = sess[i].coll /\ lastSave.supplied = sess[i].sha)

\* the records a file held before a save: the items of its array, none when
\* the file was missing or held no array
StoredBefore(sv) ==
    IF ~sv.pre.exists THEN <<>>
    ELSE LET p == Loads(sv.pre.content) IN
         IF p.ok /\ IsList(p.v) THEN p.v.items ELSE <<>>

\* the last save is the successful save of the interaction session i is in
SavedLast(i) == lastSave.valid /\ lastSave.by = i /\ lastSave.ok /\ sess[i].saved = "ok"

\* C13: after a successful finance add the file holds the records it held
\* before, in the same order, followed by the new record; after a successful
\* note add it holds the new note followed by the notes it held before, in
\* the same order.
C13_AddChangesOneRecord ==
    \A i \in Sessions :
        (SavedLast(i) /\ sess[i].kind \in {"fin_add", "note_add"}) =>
            LET after == Loads(files[sess[i].coll].content) IN
            /\ files[sess[i].coll] = lastSave.post
            /\ after.ok /\ IsList(after.v)
            /\ sess[i].kind = "fin_add" =>
                    after.v.items = StoredBefore(lastSave) \o <<sess[i].items>>
            /\ sess[i].kind = "note_add" =>
                    after.v.items = <<sess[i].items>> \o StoredBefore(lastSave)

C13_Witness ==
    \E i \in Sessions :
        /\ SavedLast(i) /\ sess[i].kind = "note_add"
        /\ StoredBefore(lastSave) = <<N1, N2>>
        /\ Loads(files["notes.json"].content).v.items = <<Note(<<"idea">>, Now), N1, N2>>

\* the notices that tell the user the interaction succeeded
SuccessNotices == {"imported", "deleted", "recorded"}

\* C14 as stated: a session shows a success notice (imported, deleted,
\* recorded) only if the save of its interaction returned True.
C14_Original ==
    \A i \in Sessions :
        sess[i].notices \cap SuccessNotices # {} => sess[i].saved = "ok"

\* a text that load reads as an array
ReadableArray(t) == LET p == Loads(t) IN p.ok /\ IsList(p.v)

\* the load of session i's interaction returned the empty list although the
\* file that its save met exists and is not empty: the call failed, or the
\* content is no JSON array
LoadFailedToRead(i) ==
    /\ Saved(i) /\ lastSave.valid /\ lastSave.by = i
    /\ sess[i].loaded = PyList(<<>>)
    /\ lastSave.pre.exists /\ lastSave.pre.content # <<>>
    /\ (sess[i].loadFault \/ ~ReadableArray(lastSave.pre.content))

\* C15 as stated: when the load of an interaction failed to read a file
\* that exists and is not empty, the save that follows does not replace the
\* content of the file.
C15_Original ==
    \A i \in Sessions :
        LoadFailedToRead(i) => lastSave.post.content = lastSave.pre.content

\* seq without the elements at the positions of S, from position n on
RECURSIVE KeepFrom(_, _, _)
KeepFrom(seq, S, n) ==
    IF n > Len(seq) THEN <<>>
    ELSE (IF n \in S THEN <<>> ELSE <<seq[n]>>) \o KeepFrom(seq, S, n + 1)

\* C16: after a successful batch delete with the rows S ticked, the file
\* holds the list loaded in that interaction without the elements at the
\* positions of S, the others in their order; after a successful delete of
\* note i it holds the loaded notes without the one at position i.
C16_DeleteRemovesSelected ==
    \A i \in Sessions :
        (SavedLast(i) /\ sess[i].kind \in {"cal_delete", "note_delete"}) =>
            LET after == Loads(files[sess[i].coll].content) IN
            /\ sess[i].sel # {} /\ sess[i].sel \subseteq 1..Len(sess[i].loaded.items)
            /\ sess[i].loaded.items = StoredBefore(lastSave)
            /\ after.ok /\ IsList(after.v)
            /\ after.v.items = KeepFrom(sess[i].loaded.items, sess[i].sel, 1)
            /\ sess[i].kind = "note_delete" => Cardinality(sess[i].sel) = 1

C16_Witness ==
    \E i \in Sessions :
        /\ SavedLast(i) /\ sess[i].kind = "cal_delete"
        /\ sess[i].loaded.items = <<E11, E21>> /\ sess[i].sel = {1}
        /\ Loads(files["events.json"].content).v.items = <<E21>>

\* C17: when an import has candidates and accepts none of them, the
\* interaction ends without a save call: it keeps the list it loaded, writes
\* nothing, and, the merge having run through, warns that all were
\* duplicates.
C17_AllDuplicatesNoWrite ==
    \A i \in Sessions :
        (sess[i].kind = "cal_import" /\ sess[i].pc # "cal_parse"
            /\ Truthy(sess[i].items) /\ sess[i].added = 0) =>
            /\ sess[i].pc = "done"
            /\ sess[i].saves = 0 /\ sess[i].saved = "none"
            /\ "save" \notin {sess[i].steps[n] : n \in 1..Len(sess[i].steps)}
            /\ sess[i].data = sess[i].loaded
            /\ ~sess[i].raised => "all_duplicates" \in sess[i].notices
            /\ sess[i].notices \cap {"imported", "save_failed"} = {}

C17_Witness ==
    \E i \in Sessions :
        /\ sess[i].kind = "cal_import" /\ sess[i].pc = "done"
        /\ sess[i].items = PyList(<<E11>>) /\ sess[i].loaded = PyList(<<E11, E21>>)
        /\ sess[i].added = 0 /\ sess[i].saves = 0
        /\ "all_duplicates" \in sess[i].notices
        /\ files["events.json"] = Existing(Dumps(PyList(<<E11, E21>>)))

====
